---- MODULE Spec2Model ----
(***************************************************************************)
(* A model of the Temporal arithmetic core: Instant (instant.rs) and       *)
(* PlainTime (time.rs).  Epoch nanoseconds are num_bigint::BigInt values   *)
(* of up to 74 bits and the private arithmetic runs in f64, so the model   *)
(* carries wide integers as limb sequences and rounds every f64 result to  *)
(* a 53-bit significand, as IEEE-754 binary64 does.                        *)
(***************************************************************************)
EXTENDS Integers, Sequences, FiniteSets, TLC

(***************************************************************************)
(* Wide integers (num_bigint::BigInt): sign and magnitude; the magnitude   *)
(* is a little-endian sequence of limbs in 0..Base-1 with no leading zero  *)
(* limb, the empty sequence being zero.                                    *)
(***************************************************************************)
Base == 32768

LimbBits == 15

RECURSIVE MagNorm(_)
MagNorm(m) ==
    IF Len(m) = 0 THEN <<>>
    ELSE IF m[Len(m)] = 0 THEN MagNorm(SubSeq(m, 1, Len(m) - 1))
    ELSE m

RECURSIVE MagOfNat(_)
MagOfNat(n) == IF n = 0 THEN <<>> ELSE <<n % Base>> \o MagOfNat(n \div Base)

Limb(m, i) == IF i <= Len(m) THEN m[i] ELSE 0

RECURSIVE MagCmpAt(_, _, _)
MagCmpAt(a, b, i) ==
    IF i = 0 THEN 0
    ELSE IF a[i] < b[i] THEN -1
    ELSE IF a[i] > b[i] THEN 1
    ELSE MagCmpAt(a, b, i - 1)

MagCmp(a, b) ==
    IF Len(a) < Len(b) THEN -1
    ELSE IF Len(a) > Len(b) THEN 1
    ELSE MagCmpAt(a, b, Len(a))

RECURSIVE MagAddAt(_, _, _, _)
MagAddAt(a, b, i, carry) ==
    IF i > Len(a) /\ i > Len(b)
    THEN (IF carry = 0 THEN <<>> ELSE <<carry>>)
    ELSE LET s == Limb(a, i) + Limb(b, i) + carry
         IN  <<s % Base>> \o MagAddAt(a, b, i + 1, s \div Base)

MagAdd(a, b) == MagAddAt(a, b, 1, 0)

\* a - b for a >= b
RECURSIVE MagSubAt(_, _, _, _)
MagSubAt(a, b, i, borrow) ==
    IF i > Len(a) THEN <<>>
    ELSE LET s == a[i] - Limb(b, i) - borrow
         IN  IF s < 0 THEN <<s + Base>> \o MagSubAt(a, b, i + 1, 1)
             ELSE <<s>> \o MagSubAt(a, b, i + 1, 0)

MagSub(a, b) == MagNorm(MagSubAt(a, b, 1, 0))

RECURSIVE MagMulLimbAt(_, _, _, _)
MagMulLimbAt(a, k, i, carry) ==
    IF i > Len(a)
    THEN (IF carry = 0 THEN <<>> ELSE <<carry>>)
    ELSE LET p == a[i] * k + carry
         IN  <<p % Base>> \o MagMulLimbAt(a, k, i + 1, p \div Base)

RECURSIVE MagMulAt(_, _, _)
MagMulAt(a, b, j) ==
    IF j > Len(b) THEN <<>>
    ELSE MagAdd(MagMulLimbAt(a, b[j], 1, 0), <<0>> \o MagMulAt(a, b, j + 1))

MagMul(a, b) == IF a = <<>> \/ b = <<>> THEN <<>> ELSE MagNorm(MagMulAt(a, b, 1))

RECURSIVE BitLenNat(_)
BitLenNat(n) == IF n = 0 THEN 0 ELSE 1 + BitLenNat(n \div 2)

MagBitLen(m) == IF m = <<>> THEN 0 ELSE LimbBits * (Len(m) - 1) + BitLenNat(m[Len(m)])

\* Division of a magnitude by one limb d: the remainder of the limbs from
\* the i-th up, and the quotient, whose i-th limb divides that remainder
\* carried down onto limb i.
RECURSIVE MagRemLimbAt(_, _, _)
MagRemLimbAt(a, d, i) ==
    IF i > Len(a) THEN 0 ELSE (MagRemLimbAt(a, d, i + 1) * Base + a[i]) % d

MagDivLimb(a, d) ==
    MagNorm(SubSeq([i \in 1..Len(a) |-> (MagRemLimbAt(a, d, i + 1) * Base + a[i]) \div d],
                   1, Len(a)))

\* Schoolbook binary long division: the k low bits of one limb of the
\* dividend are shifted, highest first, into the remainder, the quotient
\* gaining one bit each time; st is the quotient and remainder so far.
RECURSIVE MagDivBits(_, _, _, _)
MagDivBit(limb, b, k, q2, r2) ==
    IF Len(q2) >= 0 /\ MagCmp(r2, b) >= 0
    THEN MagDivBits(limb, b, k - 1, [q |-> MagAddAt(q2, <<>>, 1, 1), r |-> MagSub(r2, b)])
    ELSE MagDivBits(limb, b, k - 1, [q |-> q2, r |-> r2])

MagDivBits(limb, b, k, st) ==
    IF k = 0 THEN st
    ELSE MagDivBit(limb, b, k, MagAddAt(st.q, st.q, 1, 0),
                   MagNorm(MagAddAt(st.r, st.r, 1, (limb \div (2 ^ (k - 1))) % 2)))

RECURSIVE MagDivLimbs(_, _, _, _)
MagDivLimbs(a, b, i, st) ==
    IF i = 0 THEN st
    ELSE MagDivLimbs(a, b, i - 1, MagDivBits(a[i], b, LimbBits, st))

\* a = b * q + r with r < b, given the same for a \div f and b \div f.
MagUnpeel(d, f, low) ==
    [q |-> d.q, r |-> MagNorm(MagAddAt(MagMulLimbAt(d.r, f, 1, 0), <<low>>, 1, 0))]

\* The largest of a few small numbers that divides b, or 0.
MagSmallFactor(b) ==
    CHOOSE f \in {1000, 64, 60, 5, 3, 2, 0} :
        /\ f # 0 => MagRemLimbAt(b, f, 1) = 0
        /\ \A g \in {1000, 64, 60, 5, 3, 2} : g > f => MagRemLimbAt(b, g, 1) # 0

\* Quotient and remainder of magnitudes, b # 0.  A one-limb divisor divides
\* limb by limb; a longer one that has a small factor f is divided through
\* by it first, floor(a / b) being floor(floor(a / f) / (b / f)); any other
\* takes the binary long division.
RECURSIVE MagDivMod(_, _)
MagDivModBy(a, b, f) ==
    IF f = 0
    THEN MagDivLimbs(a, b, Len(a), [q |-> <<>>, r |-> <<>>])
    ELSE MagUnpeel(MagDivMod(MagDivLimb(a, f), MagDivLimb(b, f)), f, MagRemLimbAt(a, f, 1))

MagDivMod(a, b) ==
    IF MagCmp(a, b) < 0 THEN [q |-> <<>>, r |-> a]
    ELSE IF Len(b) = 1
    THEN [q |-> MagDivLimb(a, b[1]), r |-> MagOfNat(MagRemLimbAt(a, b[1], 1))]
    ELSE MagDivModBy(a, b, MagSmallFactor(b))

RECURSIVE MagPow2(_)
MagPow2(k) == IF k < LimbBits THEN <<2 ^ k>> ELSE <<0>> \o MagPow2(k - LimbBits)

\* floor(m / 2^k) and m mod 2^k, by dropping or keeping whole limbs and
\* splitting one.
MagShr(m, k) ==
    IF k \div LimbBits >= Len(m) THEN <<>>
    ELSE MagDivLimb(SubSeq(m, k \div LimbBits + 1, Len(m)), 2 ^ (k % LimbBits))

MagLowBits(m, k) ==
    IF k \div LimbBits >= Len(m) THEN m
    ELSE MagNorm(SubSeq(m, 1, k \div LimbBits)
                 \o <<m[k \div LimbBits + 1] % (2 ^ (k % LimbBits))>>)

Big(neg, mag) == [neg |-> neg /\ mag # <<>>, mag |-> mag]

BigZero == Big(FALSE, <<>>)

BigOfInt(n) == IF n < 0 THEN Big(TRUE, MagOfNat(-n)) ELSE Big(FALSE, MagOfNat(n))

BigNeg(a) == Big(~a.neg, a.mag)

BigAdd(a, b) ==
    IF a.neg = b.neg THEN Big(a.neg, MagAdd(a.mag, b.mag))
    ELSE IF MagCmp(a.mag, b.mag) >= 0 THEN Big(a.neg, MagSub(a.mag, b.mag))
    ELSE Big(b.neg, MagSub(b.mag, a.mag))

BigSub(a, b) == BigAdd(a, BigNeg(b))

BigMul(a, b) == Big(a.neg # b.neg, MagMul(a.mag, b.mag))

\* -1, 0 or 1 as a < b, a = b, a > b
BigCmp(a, b) ==
    IF a.neg # b.neg THEN (IF a.neg THEN -1 ELSE 1)
    ELSE IF a.neg THEN MagCmp(b.mag, a.mag)
    ELSE MagCmp(a.mag, b.mag)

BigLe(a, b) == BigCmp(a, b) <= 0

BigLt(a, b) == BigCmp(a, b) < 0

\* BigInt's `/` and `%`: the quotient truncates toward zero and the
\* remainder takes the sign of the dividend.
BigDivTrunc(a, b) == Big(a.neg # b.neg, MagDivMod(a.mag, b.mag).q)

BigRemTrunc(a, b) == Big(a.neg, MagDivMod(a.mag, b.mag).r)

\* The value as a TLC integer; for |a| < 2^30 only.
BigToInt(a) ==
    LET v == Limb(a.mag, 1) + Base * Limb(a.mag, 2)
    IN  IF a.neg THEN -v ELSE v

(***************************************************************************)
(* f64.  Every f64 the model meets is integer-valued, so a value is kept   *)
(* as the wide integer it equals, and each operation returns the exact     *)
(* result rounded to 53 significant bits, ties to even.                    *)
(***************************************************************************)
F64_MANTISSA_DIGITS == 53

\* q * 2^cut, q having been cut to 53 bits and c telling how what was cut
\* off compares with half a unit of q: up when above, to even on a tie.
MagRoundEven(q, c, cut) ==
    MagMul(IF c > 0 \/ (c = 0 /\ Limb(q, 1) % 2 = 1) THEN MagAdd(q, <<1>>) ELSE q,
           MagPow2(cut))

MagRoundAt(m, cut) ==
    IF cut <= 0 THEN m
    ELSE MagRoundEven(MagShr(m, cut), MagCmp(MagLowBits(m, cut), MagPow2(cut - 1)), cut)

MagToF64(m) == MagRoundAt(m, MagBitLen(m) - F64_MANTISSA_DIGITS)

\* BigInt::to_f64 (correctly rounded)
BigToF64(a) == Big(a.neg, MagToF64(a.mag))

FAdd(a, b) == BigToF64(BigAdd(a, b))

FSub(a, b) == BigToF64(BigSub(a, b))

FMul(a, b) == BigToF64(BigMul(a, b))

\* trunc(a / d) in f64, d > 0: the division returns the quotient a/d rounded
\* to 53 significant bits and trunc drops what fraction the rounding leaves.
\* With q = floor(|a|/d), r = |a| mod d and cut the bit length of q less 53:
\*   r = 0     the quotient is the integer q, rounded like any integer;
\*   cut > 0   the spacing of f64 is 2^cut > 1: q + r/d goes to the nearer
\*             multiple, r/d > 0 settling what would be a tie of q;
\*   cut = 0   the spacing is 1: nearest integer, a tie to the even one;
\*   cut < 0   the spacing is 2^cut < 1: the result reaches q + 1 only
\*             when 1 - r/d is at most half of it, and is cut to q otherwise.
FDivRound(q, r, d, cut) ==
    IF r = <<>> THEN MagToF64(q)
    ELSE IF cut > 0
    THEN MagRoundEven(MagShr(q, cut),
                      IF MagCmp(MagLowBits(q, cut), MagPow2(cut - 1)) >= 0 THEN 1 ELSE -1,
                      cut)
    ELSE IF cut = 0 THEN MagRoundEven(q, MagCmp(MagAdd(r, r), d), 0)
    ELSE IF MagCmp(MagMul(MagSub(d, r), MagPow2(1 - cut)), d) <= 0 THEN MagAdd(q, <<1>>)
    ELSE q

FDivTruncOf(dm, d) == FDivRound(dm.q, dm.r, d, MagBitLen(dm.q) - F64_MANTISSA_DIGITS)

FDivTrunc(a, d) == Big(a.neg, FDivTruncOf(MagDivMod(a.mag, d.mag), d.mag))

\* f64::rem_euclid for rhs > 0: the remainder r of truncated division (exact
\* in f64), plus rhs when it is negative.
AddIfNegative(r, rhs) == IF r.neg THEN FAdd(r, rhs) ELSE r

rem_euclid(a, rhs) == AddIfNegative(BigRemTrunc(a, rhs), rhs)

(***************************************************************************)
(* Results: TemporalResult<T>, and a panic (expect, debug_assert).         *)
(***************************************************************************)
Ok(v) == [kind |-> "Ok", val |-> v]

RangeError == [kind |-> "RangeError"]

TypeError == [kind |-> "TypeError"]

Panic == [kind |-> "Panic"]

IsOk(r) == r.kind = "Ok"

(***************************************************************************)
(* Constants                                                               *)
(***************************************************************************)
NANOSECONDS_PER_SECOND == BigOfInt(1000000000)

NANOSECONDS_PER_MINUTE == FMul(BigOfInt(60), NANOSECONDS_PER_SECOND)

NANOSECONDS_PER_HOUR == FMul(BigOfInt(60), NANOSECONDS_PER_MINUTE)

MS_PER_DAY == 86400000

NS_PER_DAY == BigMul(BigOfInt(MS_PER_DAY), BigOfInt(1000000))

\* Nanoseconds of 10^8 days either side of the epoch.
NS_MAX_INSTANT == BigMul(NS_PER_DAY, BigOfInt(100000000))

NS_MIN_INSTANT == BigNeg(NS_MAX_INSTANT)

(***************************************************************************)
(* Options: units, rounding modes, increments, difference settings.        *)
(***************************************************************************)
TemporalUnit ==
    <<"Auto", "Nanosecond", "Microsecond", "Millisecond", "Second", "Minute",
      "Hour", "Day", "Week", "Month", "Year">>

\* The unit's ordinal, 0 for Auto up to 10 for Year.
UnitOrd(unit) == (CHOOSE i \in 1..Len(TemporalUnit) : TemporalUnit[i] = unit) - 1

TemporalRoundingMode ==
    {"Ceil", "Floor", "Expand", "Trunc", "HalfCeil", "HalfFloor", "HalfExpand",
     "HalfTrunc", "HalfEven"}

\* Option<T>: None, or Some(v).
None == <<>>

Some(v) == <<v>>

unwrap_or(opt, default) == IF opt = None THEN default ELSE opt[1]

\* The signed mode as the unsigned primitive that rounds the magnitude.
get_unsigned_round_mode(mode, is_positive) ==
    CASE mode = "Ceil"       -> IF is_positive THEN "Infinity" ELSE "Zero"
      [] mode = "Floor"      -> IF is_positive THEN "Zero" ELSE "Infinity"
      [] mode = "Expand"     -> "Infinity"
      [] mode = "Trunc"      -> "Zero"
      [] mode = "HalfCeil"   -> IF is_positive THEN "HalfInfinity" ELSE "HalfZero"
      [] mode = "HalfFloor"  -> IF is_positive THEN "HalfZero" ELSE "HalfInfinity"
      [] mode = "HalfExpand" -> "HalfInfinity"
      [] mode = "HalfTrunc"  -> "HalfZero"
      [] mode = "HalfEven"   -> "HalfEven"

\* The number of increments the magnitude rounds to: with r1 = floor(x) and
\* r2 = r1 + 1 for x = dividend / divisor, r1 when x = r1, else r1 or r2 as
\* the primitive says; d is the quotient and remainder of the division and
\* c compares the remainder with half the divisor.
RoundQuotient(d, c, unsigned_rounding_mode) ==
    IF d.r = <<>> THEN d.q
    ELSE IF unsigned_rounding_mode = "Zero" THEN d.q
    ELSE IF unsigned_rounding_mode = "Infinity" THEN MagAdd(d.q, <<1>>)
    ELSE IF c < 0 THEN d.q
    ELSE IF c > 0 THEN MagAdd(d.q, <<1>>)
    ELSE IF unsigned_rounding_mode = "HalfZero" THEN d.q
    ELSE IF unsigned_rounding_mode = "HalfInfinity" THEN MagAdd(d.q, <<1>>)
    ELSE IF Limb(d.q, 1) % 2 = 0 THEN d.q
    ELSE MagAdd(d.q, <<1>>)

RoundDivision(d, divisor, unsigned_rounding_mode) ==
    RoundQuotient(d, MagCmp(MagAdd(d.r, d.r), divisor), unsigned_rounding_mode)

apply_unsigned_rounding_mode(dividend, divisor, unsigned_rounding_mode) ==
    RoundDivision(MagDivMod(dividend, divisor), divisor, unsigned_rounding_mode)

\* IncrementRounder::round of a signed number: the magnitude is rounded
\* under the primitive its sign selects and the sign is put back.
IncrementRounder_round(number, increment, mode) ==
    LET unsigned == get_unsigned_round_mode(mode, ~number.neg)
    IN  Big(number.neg,
            MagMul(apply_unsigned_rounding_mode(number.mag, increment.mag, unsigned),
                   increment.mag))

\* RoundingIncrement::try_from(f64): a positive integer.
RoundingIncrement_try_from(increment) ==
    IF increment < 1 THEN RangeError ELSE Ok(increment)

\* RoundingIncrement::validate(dividend, inclusive): the increment is at most
\* the dividend, below it when not inclusive, and divides it evenly.
validate(increment, dividend, inclusive) ==
    LET inc == BigOfInt(increment)
        max == IF inclusive THEN dividend ELSE BigSub(dividend, BigOfInt(1))
    IN  IF BigLt(max, inc) THEN RangeError
        ELSE IF BigRemTrunc(dividend, inc) # BigZero THEN RangeError
        ELSE Ok(<<>>)

to_maximum_rounding_increment(unit) ==
    CASE unit = "Hour" -> Some(24)
      [] unit \in {"Minute", "Second"} -> Some(60)
      [] unit \in {"Millisecond", "Microsecond", "Nanosecond"} -> Some(1000)
      [] OTHER -> None

\* Nanoseconds in one unit, Hour down to Nanosecond.
as_nanoseconds(unit) ==
    CASE unit = "Hour"        -> NANOSECONDS_PER_HOUR
      [] unit = "Minute"      -> NANOSECONDS_PER_MINUTE
      [] unit = "Second"      -> NANOSECONDS_PER_SECOND
      [] unit = "Millisecond" -> BigOfInt(1000000)
      [] unit = "Microsecond" -> BigOfInt(1000)
      [] unit = "Nanosecond"  -> BigOfInt(1)

IsTimeUnit(unit) == UnitOrd(unit) \in 1..6

DifferenceSettings(largest_unit, smallest_unit, rounding_mode, increment) ==
    [largest_unit |-> largest_unit, smallest_unit |-> smallest_unit,
     rounding_mode |-> rounding_mode, increment |-> increment]

\* ResolvedRoundingOptions::from_diff_settings: the defaults are filled in,
\* the largest unit may not be finer than the smallest, and the increment
\* is checked against the smallest unit's maximum.  The sign is -1 for
\* Since and +1 for Until.
from_diff_settings(options, op, fallback_largest, fallback_smallest) ==
    LET increment == unwrap_or(options.increment, 1)
        mode      == unwrap_or(options.rounding_mode, "HalfExpand")
        smallest  == unwrap_or(options.smallest_unit, fallback_smallest)
        auto      == IF UnitOrd(fallback_largest) > UnitOrd(smallest)
                     THEN fallback_largest ELSE smallest
        largest   == IF options.largest_unit \in {None, Some("Auto")}
                     THEN auto ELSE options.largest_unit[1]
        maximum   == to_maximum_rounding_increment(smallest)
    IN  IF UnitOrd(largest) < UnitOrd(smallest) THEN RangeError
        ELSE IF ~IsOk(RoundingIncrement_try_from(increment)) THEN RangeError
        ELSE IF maximum # None /\ ~IsOk(validate(increment, BigOfInt(maximum[1]), FALSE))
        THEN RangeError
        ELSE Ok([sign |-> IF op = "Since" THEN -1 ELSE 1,
                 resolved |-> [largest_unit |-> largest, smallest_unit |-> smallest,
                               increment |-> increment, rounding_mode |-> mode]])

(***************************************************************************)
(* Duration: a date part and a TimeDuration of six f64 components.         *)
(***************************************************************************)
TimeDuration(h, mi, s, ms, us, ns) ==
    [hours |-> h, minutes |-> mi, seconds |-> s,
     milliseconds |-> ms, microseconds |-> us, nanoseconds |-> ns]

Duration(date, t) == [date |-> date, time |-> t]

ZeroDate == [years |-> 0, months |-> 0, weeks |-> 0, days |-> 0]

is_time_duration(duration) == duration.date = ZeroDate

negated(t) ==
    TimeDuration(BigNeg(t.hours), BigNeg(t.minutes), BigNeg(t.seconds),
                 BigNeg(t.milliseconds), BigNeg(t.microseconds), BigNeg(t.nanoseconds))

SignOf(a) == IF a.neg THEN -1 ELSE IF a.mag = <<>> THEN 0 ELSE 1

\* TimeDuration::new: the components may not mix signs.
Limb6(ds, k) == IF k <= Len(ds) THEN ds[k] ELSE <<>>

TimeDuration_new(h, mi, s, ms, us, ns) ==
    LET signs == {SignOf(h), SignOf(mi), SignOf(s), SignOf(ms), SignOf(us), SignOf(ns)}
    IN  IF 1 \in signs /\ -1 \in signs THEN RangeError
        ELSE Ok(TimeDuration(h, mi, s, ms, us, ns))

\* NormalizedTimeDuration: the exact total of nanoseconds, seconds() and
\* subseconds() being its quotient and remainder by 10^9.
to_normalized(t) ==
    BigAdd(BigAdd(BigAdd(BigAdd(BigAdd(
        BigMul(t.hours, BigMul(BigOfInt(3600), BigOfInt(1000000000))),
        BigMul(t.minutes, BigMul(BigOfInt(60), BigOfInt(1000000000)))),
        BigMul(t.seconds, BigOfInt(1000000000))),
        BigMul(t.milliseconds, BigOfInt(1000000))),
        BigMul(t.microseconds, BigOfInt(1000))),
        t.nanoseconds)

\* The digits of a magnitude in a mixed radix, lowest first, what is left
\* above the last radix being the last digit.
RECURSIVE MixedRadix(_, _, _)
MixedRadixCons(d, radices, i) == <<d.r>> \o MixedRadix(d.q, radices, i + 1)

MixedRadix(mag, radices, i) ==
    IF i > Len(radices) THEN <<mag>>
    ELSE MixedRadixCons(MagDivMod(mag, <<radices[i]>>), radices, i)

\* The time duration whose fields, nanoseconds first, have the magnitudes
\* ds and the sign neg, each an f64.
SignedFields(neg, ds) ==
    TimeDuration(BigToF64(Big(neg, Limb6(ds, 6))), BigToF64(Big(neg, Limb6(ds, 5))),
                 BigToF64(Big(neg, Limb6(ds, 4))), BigToF64(Big(neg, Limb6(ds, 3))),
                 BigToF64(Big(neg, Limb6(ds, 2))), BigToF64(Big(neg, Limb6(ds, 1))))

\* TimeDuration::from_normalized: the magnitude is balanced upward from
\* nanoseconds as far as largest_unit, the top field taking what is left,
\* and every field gets the sign of the total; each field is an f64.
from_normalized(norm, largest_unit) ==
    IF UnitOrd(largest_unit) = 0 THEN RangeError
    ELSE Ok(SignedFields(norm.neg,
              MixedRadix(norm.mag,
                         SubSeq(<<1000, 1000, 1000, 60, 60>>, 1, UnitOrd(largest_unit) - 1),
                         1)))

\* NormalizedTimeDuration::round / TimeDuration::round with no days: the
\* total is rounded to the increment of the smallest unit.
round_normalized(norm, resolved) ==
    IF ~IsTimeUnit(resolved.smallest_unit) THEN RangeError
    ELSE Ok(IncrementRounder_round(norm,
               BigMul(BigOfInt(resolved.increment), as_nanoseconds(resolved.smallest_unit)),
               resolved.rounding_mode))

(***************************************************************************)
(* Instant                                                                 *)
(***************************************************************************)
\* The range check with both bounds left out.
is_valid_epoch_nanos_exclusive(nanos) ==
    BigLt(NS_MIN_INSTANT, nanos) /\ BigLt(nanos, NS_MAX_INSTANT)

is_valid_epoch_nanos(nanos) ==
    BigLe(nanos, NS_MAX_INSTANT) /\ BigLe(NS_MIN_INSTANT, nanos)

Instant_new(nanos) ==
    IF ~is_valid_epoch_nanos(nanos) THEN RangeError
    ELSE Ok([nanos |-> nanos])

to_f64(self) == BigToF64(self.nanos)

epoch_nanoseconds(self) == to_f64(self)

\* The sum is finite for every finite duration, so BigInt::from_f64 is Some
\* and is the sum itself.
add_to_instant(self, duration) ==
    LET result ==
          FAdd(FAdd(FAdd(FAdd(FAdd(FAdd(epoch_nanoseconds(self),
               duration.nanoseconds),
               FMul(duration.microseconds, BigOfInt(1000))),
               FMul(duration.milliseconds, BigOfInt(1000000))),
               FMul(duration.seconds, NANOSECONDS_PER_SECOND)),
               FMul(duration.minutes, NANOSECONDS_PER_MINUTE)),
               FMul(duration.hours, NANOSECONDS_PER_HOUR))
    IN  Instant_new(result)

Instant_add_time_duration(self, duration) == add_to_instant(self, duration)

\* add without the is_time_duration guard
Instant_add_unguarded(self, duration) == Instant_add_time_duration(self, duration.time)

Instant_add(self, duration) ==
    IF ~is_time_duration(duration) THEN RangeError
    ELSE Instant_add_time_duration(self, duration.time)

Instant_subtract_time_duration(self, duration) == add_to_instant(self, negated(duration))

Instant_subtract(self, duration) ==
    IF ~is_time_duration(duration) THEN RangeError
    ELSE Instant_subtract_time_duration(self, duration.time)

\* The components are taken from self - other in f64 whatever the operation,
\* and the sign that from_diff_settings returns is not used.
diff_instant(self, op, other, options) ==
    LET diff   == FSub(to_f64(self), to_f64(other))
        nanos  == rem_euclid(diff, BigOfInt(1000))
        micros == rem_euclid(FDivTrunc(diff, BigOfInt(1000)), BigOfInt(1000))
        millis == rem_euclid(FDivTrunc(diff, BigOfInt(1000000)), BigOfInt(1000))
        secs   == FDivTrunc(diff, NANOSECONDS_PER_SECOND)
        settings == from_diff_settings(options, op, "Second", "Nanosecond")
        resolved == settings.val.resolved
        checked  == TimeDuration_new(BigZero, BigZero, secs, millis, micros, nanos)
        rounded  == round_normalized(to_normalized(checked.val), resolved)
    IN  IF ~IsOk(settings) THEN settings
        ELSE IF resolved.smallest_unit = "Nanosecond"
        THEN from_normalized(
                 to_normalized(TimeDuration(BigZero, BigZero, secs, millis, micros, nanos)),
                 resolved.largest_unit)
        ELSE IF ~IsOk(checked) THEN checked
        ELSE IF ~IsOk(rounded) THEN rounded
        ELSE from_normalized(rounded.val, resolved.largest_unit)

Instant_since(self, other, settings) == diff_instant(self, "Since", other, settings)

Instant_until(self, other, settings) == diff_instant(self, "Until", other, settings)

U64_MAX == Big(FALSE, MagSub(MagPow2(64), <<1>>))

\* IncrementRounder::<f64>::from_positive_parts(number, increment) followed by
\* round_as_positive(mode): the number is taken to be positive and the
\* result is a u64.  A negative number breaks the constructor's assertion: a
\* build that checks it stops; one that does not rounds on, and the u64 it
\* returns is the rounded magnitude or, the negative result saturating, zero.
\* A result that no u64 holds stops the program or saturates.
RoundedAsU64(neg, rounded) ==
    IF MagBitLen(rounded) > 64 THEN {Panic, Ok(U64_MAX)}
    ELSE IF neg THEN {Panic, Ok(Big(FALSE, rounded)), Ok(BigZero)}
    ELSE {Ok(Big(FALSE, rounded))}

round_as_positive(number, increment, mode) ==
    RoundedAsU64(number.neg,
                 MagMul(apply_unsigned_rounding_mode(number.mag, increment.mag,
                            get_unsigned_round_mode(mode, TRUE)),
                        increment.mag))

\* u128 checked_mul
checked_mul(a, b) ==
    LET p == BigMul(a, b)
    IN  IF MagBitLen(p.mag) > 128 THEN None ELSE Some(p)

\* The set of results the call can have.
round_instant(self, increment, unit, rounding_mode) ==
    LET extended == BigOfInt(increment)
        scaled == CASE unit = "Hour"        -> checked_mul(extended, NANOSECONDS_PER_HOUR)
                    [] unit = "Minute"      -> checked_mul(extended, NANOSECONDS_PER_MINUTE)
                    [] unit = "Second"      -> checked_mul(extended, NANOSECONDS_PER_SECOND)
                    [] unit = "Millisecond" -> checked_mul(extended, BigOfInt(1000000))
                    [] unit = "Microsecond" -> checked_mul(extended, BigOfInt(1000))
                    [] unit = "Nanosecond"  -> Some(extended)
    IN  IF ~IsTimeUnit(unit) THEN {RangeError}
        ELSE IF scaled = None THEN {RangeError}
        ELSE round_as_positive(to_f64(self), scaled[1], rounding_mode)

\* round without the validation of the increment against the day
Instant_round_unvalidated(self, increment, unit, rounding_mode) ==
    { IF IsOk(r) THEN Instant_new(r.val) ELSE r :
        r \in IF unwrap_or(increment, 1) < 1 THEN {RangeError}
              ELSE round_instant(self, unwrap_or(increment, 1), unit,
                                 unwrap_or(rounding_mode, "HalfExpand")) }

\* The set of results the call can have.
Instant_round(self, increment, unit, rounding_mode) ==
    LET inc  == RoundingIncrement_try_from(unwrap_or(increment, 1))
        mode == unwrap_or(rounding_mode, "HalfExpand")
        maximum == CASE unit = "Hour"        -> BigOfInt(24)
                     [] unit = "Minute"      -> BigOfInt(24 * 60)
                     [] unit = "Second"      -> BigOfInt(24 * 3600)
                     [] unit = "Millisecond" -> BigOfInt(MS_PER_DAY)
                     [] unit = "Microsecond" -> BigMul(BigOfInt(MS_PER_DAY), BigOfInt(1000))
                     [] unit = "Nanosecond"  -> NS_PER_DAY
    IN  IF ~IsOk(inc) THEN {inc}
        ELSE IF ~IsTimeUnit(unit) THEN {RangeError}
        ELSE IF ~IsOk(validate(inc.val, maximum, TRUE)) THEN {RangeError}
        ELSE { IF IsOk(r) THEN Instant_new(r.val) ELSE r :
                 r \in round_instant(self, inc.val, unit, mode) }

\* BigInt `/` truncates toward zero; floor() of the integer-valued f64 that
\* to_f64 returns changes nothing.
epoch_seconds(self) == BigToF64(BigDivTrunc(self.nanos, BigOfInt(1000000000)))

epoch_milliseconds(self) == BigToF64(BigDivTrunc(self.nanos, BigOfInt(1000000)))

epoch_microseconds(self) == BigToF64(BigDivTrunc(self.nanos, BigOfInt(1000)))

(***************************************************************************)
(* IsoTime: the six fields of a time of day.                               *)
(***************************************************************************)
IsoTime(h, mi, s, ms, us, ns) ==
    [hour |-> h, minute |-> mi, second |-> s,
     millisecond |-> ms, microsecond |-> us, nanosecond |-> ns]

Clamp(v, lo, hi) == IF v < lo THEN lo ELSE IF v > hi THEN hi ELSE v

IsoTime_is_valid(t) ==
    /\ t.hour \in 0..23 /\ t.minute \in 0..59 /\ t.second \in 0..59
    /\ t.millisecond \in 0..999 /\ t.microsecond \in 0..999 /\ t.nanosecond \in 0..999

\* IsoTime::new: Constrain clamps each field on its own, Reject refuses a
\* field out of range.
IsoTime_new(h, mi, s, ms, us, ns, overflow) ==
    IF overflow = "Constrain"
    THEN Ok(IsoTime(Clamp(h, 0, 23), Clamp(mi, 0, 59), Clamp(s, 0, 59),
                    Clamp(ms, 0, 999), Clamp(us, 0, 999), Clamp(ns, 0, 999)))
    ELSE IF IsoTime_is_valid(IsoTime(h, mi, s, ms, us, ns))
    THEN Ok(IsoTime(h, mi, s, ms, us, ns))
    ELSE RangeError

\* IsoTime::with: the fields the partial has replace the receiver's and the
\* whole is constructed anew.
IsoTime_with(iso, partial, overflow) ==
    IsoTime_new(unwrap_or(partial.hour, iso.hour), unwrap_or(partial.minute, iso.minute),
                unwrap_or(partial.second, iso.second),
                unwrap_or(partial.millisecond, iso.millisecond),
                unwrap_or(partial.microsecond, iso.microsecond),
                unwrap_or(partial.nanosecond, iso.nanosecond), overflow)

\* f64 div_euclid and rem_euclid by a small positive divisor k, d being
\* the quotient and remainder of the magnitude.
EuclidOf(neg, d, k) ==
    IF neg /\ d.r # <<>>
    THEN [q |-> Big(TRUE, MagAdd(d.q, <<1>>)), r |-> Big(FALSE, MagSub(<<k>>, d.r))]
    ELSE [q |-> Big(neg, d.q), r |-> Big(FALSE, d.r)]

DivModEuclid(a, k) == EuclidOf(a.neg, MagDivMod(a.mag, <<k>>), k)

\* The fields from the i-th up, lowest first, each with the carry of the one
\* below added in f64 and reduced to its radix; the last entry is the carry
\* out of the top field.
RECURSIVE BalanceAt(_, _, _, _)
BalanceCons(d, fields, radices, i) ==
    <<BigToInt(d.r)>> \o BalanceAt(fields, radices, i + 1, d.q)

BalanceAt(fields, radices, i, carry) ==
    IF i > Len(fields) THEN <<BigToInt(carry)>>
    ELSE BalanceCons(DivModEuclid(FAdd(fields[i], carry), radices[i]), fields, radices, i)

BalancedTime(b) == [days |-> b[7], iso |-> IsoTime(b[6], b[5], b[4], b[3], b[2], b[1])]

\* IsoTime::balance: each field's overflow is carried into the next coarser
\* one, nanosecond up to hour, and what the hours carry is the day count.
IsoTime_balance(hour, minute, second, millisecond, microsecond, nanosecond) ==
    BalancedTime(BalanceAt(<<nanosecond, microsecond, millisecond, second, minute, hour>>,
                           <<1000, 1000, 1000, 60, 60, 24>>, 1, BigZero))

\* IsoTime::diff: other - self, field by field.
IsoTime_diff(iso, other) ==
    TimeDuration(BigOfInt(other.hour - iso.hour), BigOfInt(other.minute - iso.minute),
                 BigOfInt(other.second - iso.second),
                 BigOfInt(other.millisecond - iso.millisecond),
                 BigOfInt(other.microsecond - iso.microsecond),
                 BigOfInt(other.nanosecond - iso.nanosecond))

\* IsoTime::round: the nanoseconds from the smallest unit's field down are
\* rounded to the increment, the count of units replaces that field, the
\* finer fields are zero, and the whole is balanced.
IsoTime_round(iso, resolved) ==
    LET unit == resolved.smallest_unit
        B(n) == BigOfInt(n)
        Z    == BigZero
        whole == to_normalized(TimeDuration(
                   IF UnitOrd(unit) >= 6 THEN B(iso.hour) ELSE Z,
                   IF UnitOrd(unit) >= 5 THEN B(iso.minute) ELSE Z,
                   IF UnitOrd(unit) >= 4 THEN B(iso.second) ELSE Z,
                   IF UnitOrd(unit) >= 3 THEN B(iso.millisecond) ELSE Z,
                   IF UnitOrd(unit) >= 2 THEN B(iso.microsecond) ELSE Z,
                   B(iso.nanosecond)))
        length == as_nanoseconds(unit)
        rounded == IncrementRounder_round(whole, BigMul(B(resolved.increment), length),
                                          resolved.rounding_mode)
        result == BigDivTrunc(rounded, length)
    IN  CASE unit = "Hour" -> Ok(IsoTime_balance(result, Z, Z, Z, Z, Z))
          [] unit = "Minute" -> Ok(IsoTime_balance(B(iso.hour), result, Z, Z, Z, Z))
          [] unit = "Second" ->
                Ok(IsoTime_balance(B(iso.hour), B(iso.minute), result, Z, Z, Z))
          [] unit = "Millisecond" ->
                Ok(IsoTime_balance(B(iso.hour), B(iso.minute), B(iso.second), result, Z, Z))
          [] unit = "Microsecond" ->
                Ok(IsoTime_balance(B(iso.hour), B(iso.minute), B(iso.second),
                                   B(iso.millisecond), result, Z))
          [] unit = "Nanosecond" ->
                Ok(IsoTime_balance(B(iso.hour), B(iso.minute), B(iso.second),
                                   B(iso.millisecond), B(iso.microsecond), result))
          [] OTHER -> RangeError

(***************************************************************************)
(* PlainTime                                                               *)
(***************************************************************************)
PartialTime(h, mi, s, ms, us, ns) ==
    [hour |-> h, minute |-> mi, second |-> s,
     millisecond |-> ms, microsecond |-> us, nanosecond |-> ns]

PartialTime_default == PartialTime(None, None, None, None, None, None)

is_empty(partial) == partial = PartialTime_default

new_unchecked(iso) == [iso |-> iso]

\* add_to_time with the sums of the fields left unbalanced
add_to_time_unbalanced(self, duration) ==
    Ok(new_unchecked(IsoTime(self.iso.hour + BigToInt(duration.hours),
                             self.iso.minute + BigToInt(duration.minutes),
                             self.iso.second + BigToInt(duration.seconds),
                             self.iso.millisecond + BigToInt(duration.milliseconds),
                             self.iso.microsecond + BigToInt(duration.microseconds),
                             self.iso.nanosecond + BigToInt(duration.nanoseconds))))

\* add_to_time handing the day count of the balance on with the time
add_to_time_with_days(self, duration) ==
    LET B(n) == BigOfInt(n)
        result == IsoTime_balance(
                      FAdd(B(self.iso.hour), duration.hours),
                      FAdd(B(self.iso.minute), duration.minutes),
                      FAdd(B(self.iso.second), duration.seconds),
                      FAdd(B(self.iso.millisecond), duration.milliseconds),
                      FAdd(B(self.iso.microsecond), duration.microseconds),
                      FAdd(B(self.iso.nanosecond), duration.nanoseconds))
    IN  Ok([iso |-> result.iso, days |-> result.days])

\* checked_add fails on a sum that is not finite; the sums here are finite.
add_to_time(self, duration) ==
    LET B(n) == BigOfInt(n)
        result == IsoTime_balance(
                      FAdd(B(self.iso.hour), duration.hours),
                      FAdd(B(self.iso.minute), duration.minutes),
                      FAdd(B(self.iso.second), duration.seconds),
                      FAdd(B(self.iso.millisecond), duration.milliseconds),
                      FAdd(B(self.iso.microsecond), duration.microseconds),
                      FAdd(B(self.iso.nanosecond), duration.nanoseconds))
    IN  Ok(new_unchecked(result.iso))

\* diff_time with the sign of the operation left unapplied
diff_time_unsigned(self, op, other, settings) ==
    LET sr       == from_diff_settings(settings, op, "Hour", "Nanosecond")
        resolved == sr.val.resolved
        norm     == to_normalized(IsoTime_diff(self.iso, other.iso))
        rounding == resolved.smallest_unit # "Nanosecond" \/ resolved.increment # 1
        round_record == round_normalized(norm, resolved)
        result   == from_normalized(IF rounding THEN round_record.val ELSE norm,
                                    resolved.largest_unit)
    IN  IF ~IsOk(sr) THEN sr
        ELSE IF rounding /\ ~IsOk(round_record) THEN round_record
        ELSE IF ~IsOk(result) THEN result
        ELSE Ok(Duration(ZeroDate, result.val))

diff_time(self, op, other, settings) ==
    LET sr       == from_diff_settings(settings, op, "Hour", "Nanosecond")
        resolved == sr.val.resolved
        norm     == to_normalized(IsoTime_diff(self.iso, other.iso))
        rounding == resolved.smallest_unit # "Nanosecond" \/ resolved.increment # 1
        round_record == round_normalized(norm, resolved)
        result   == from_normalized(IF rounding THEN round_record.val ELSE norm,
                                    resolved.largest_unit)
    IN  IF ~IsOk(sr) THEN sr
        ELSE IF rounding /\ ~IsOk(round_record) THEN round_record
        ELSE IF ~IsOk(result) THEN result
        ELSE IF sr.val.sign >= 0 THEN Ok(Duration(ZeroDate, result.val))
        ELSE Ok(Duration(ZeroDate, negated(result.val)))

PlainTime_new_with_overflow(h, mi, s, ms, us, ns, overflow) ==
    LET time == IsoTime_new(h, mi, s, ms, us, ns, overflow)
    IN  IF ~IsOk(time) THEN time ELSE Ok(new_unchecked(time.val))

PlainTime_new(h, mi, s, ms, us, ns) ==
    PlainTime_new_with_overflow(h, mi, s, ms, us, ns, "Constrain")

PlainTime_try_new(h, mi, s, ms, us, ns) ==
    PlainTime_new_with_overflow(h, mi, s, ms, us, ns, "Reject")

\* with without the check for an empty partial
PlainTime_with_unchecked(self, partial, overflow) ==
    LET iso == IsoTime_with(self.iso, partial, unwrap_or(overflow, "Constrain"))
    IN  IF ~IsOk(iso) THEN iso ELSE Ok(new_unchecked(iso.val))

PlainTime_with(self, partial, overflow) ==
    IF is_empty(partial) THEN TypeError
    ELSE LET iso == IsoTime_with(self.iso, partial, unwrap_or(overflow, "Constrain"))
         IN  IF ~IsOk(iso) THEN iso ELSE Ok(new_unchecked(iso.val))

PlainTime_add_time_duration(self, duration) == add_to_time(self, duration)

PlainTime_add(self, duration) ==
    IF ~is_time_duration(duration) THEN RangeError
    ELSE PlainTime_add_time_duration(self, duration.time)

PlainTime_subtract_time_duration(self, duration) == add_to_time(self, negated(duration))

PlainTime_subtract(self, duration) ==
    IF ~is_time_duration(duration) THEN RangeError
    ELSE PlainTime_subtract_time_duration(self, duration.time)

PlainTime_until(self, other, settings) == diff_time(self, "Until", other, settings)

PlainTime_since(self, other, settings) == diff_time(self, "Since", other, settings)

\* round with the maximum itself allowed as the increment
PlainTime_round_inclusive(self, smallest_unit, rounding_increment, rounding_mode) ==
    LET increment == RoundingIncrement_try_from(unwrap_or(rounding_increment, 1))
        mode == unwrap_or(rounding_mode, "HalfExpand")
        max  == to_maximum_rounding_increment(smallest_unit)
        resolved == [largest_unit |-> "Auto", increment |-> increment.val,
                     smallest_unit |-> smallest_unit, rounding_mode |-> mode]
        result == IsoTime_round(self.iso, resolved)
    IN  IF ~IsOk(increment) THEN increment
        ELSE IF max = None THEN RangeError
        ELSE IF ~IsOk(validate(increment.val, BigOfInt(max[1]), TRUE)) THEN RangeError
        ELSE IF ~IsOk(result) THEN result
        ELSE Ok(new_unchecked(result.val.iso))

\* round with Trunc as the mode when none is given
PlainTime_round_default_trunc(self, smallest_unit, rounding_increment, rounding_mode) ==
    LET increment == RoundingIncrement_try_from(unwrap_or(rounding_increment, 1))
        mode == unwrap_or(rounding_mode, "Trunc")
        max  == to_maximum_rounding_increment(smallest_unit)
        resolved == [largest_unit |-> "Auto", increment |-> increment.val,
                     smallest_unit |-> smallest_unit, rounding_mode |-> mode]
        result == IsoTime_round(self.iso, resolved)
    IN  IF ~IsOk(increment) THEN increment
        ELSE IF max = None THEN RangeError
        ELSE IF ~IsOk(validate(increment.val, BigOfInt(max[1]), FALSE)) THEN RangeError
        ELSE IF ~IsOk(result) THEN result
        ELSE Ok(new_unchecked(result.val.iso))

PlainTime_round(self, smallest_unit, rounding_increment, rounding_mode) ==
    LET increment == RoundingIncrement_try_from(unwrap_or(rounding_increment, 1))
        mode == unwrap_or(rounding_mode, "HalfExpand")
        max  == to_maximum_rounding_increment(smallest_unit)
        resolved == [largest_unit |-> "Auto", increment |-> increment.val,
                     smallest_unit |-> smallest_unit, rounding_mode |-> mode]
        result == IsoTime_round(self.iso, resolved)
    IN  IF ~IsOk(increment) THEN increment
        ELSE IF max = None THEN RangeError
        ELSE IF ~IsOk(validate(increment.val, BigOfInt(max[1]), FALSE)) THEN RangeError
        ELSE IF ~IsOk(result) THEN result
        ELSE Ok(new_unchecked(result.val.iso))

(***************************************************************************)
(* The state machine: a caller holds one value, `self`, calls one public   *)
(* operation at a time on it and keeps the value an Ok result returns.     *)
(* `last` records the call: the operation, its receiver, its arguments and *)
(* what it returned.                                                       *)
(***************************************************************************)
VARIABLES self, last, steps

vars == <<self, last, steps>>

MaxSteps == 2

TwoPow53 == Big(FALSE, MagPow2(F64_MANTISSA_DIGITS))

BigOne == BigOfInt(1)

\* Epoch nanoseconds handed to Instant::new: around zero, around 2^53 where
\* f64 stops holding every integer, 2^62 where it holds every 1024th, above
\* 2^64, and either side of both bounds.
EpochInputs ==
    { BigZero, BigOne, BigOfInt(-1), BigOfInt(1999999999), BigOfInt(-1999999999),
      TwoPow53, BigAdd(TwoPow53, BigOne),
      Big(FALSE, MagPow2(62)), Big(FALSE, MagPow2(65)),
      NS_MAX_INSTANT, NS_MIN_INSTANT,
      BigAdd(NS_MAX_INSTANT, BigOne), BigSub(NS_MIN_INSTANT, BigOne) }

InstantSeeds == { [nanos |-> n] : n \in { m \in EpochInputs : is_valid_epoch_nanos(m) } }

TD(h, mi, s, ms, us, ns) ==
    TimeDuration(BigOfInt(h), BigOfInt(mi), BigOfInt(s),
                 BigOfInt(ms), BigOfInt(us), BigOfInt(ns))

DurationInputs ==
    { Duration(ZeroDate, TD(0, 0, 0, 0, 0, 0)),
      Duration(ZeroDate, TD(0, 0, 0, 0, 0, 1)),
      Duration(ZeroDate, TD(0, 0, 0, 0, 0, -1)),
      Duration(ZeroDate, TD(16, 0, 0, 0, 0, 0)),
      Duration(ZeroDate, TD(0, 0, 0, 1500, 0, 0)),
      Duration(ZeroDate, TD(-1, -59, -59, -999, -999, -999)),
      Duration(ZeroDate, [TD(0, 0, 0, 0, 0, 0) EXCEPT
                             !.nanoseconds = BigSub(TwoPow53, BigOfInt(2))]),
      Duration([ZeroDate EXCEPT !.days = 1], TD(0, 0, 0, 0, 0, 0)),
      Duration([ZeroDate EXCEPT !.months = -1], TD(-1, 0, 0, 0, 0, 0)) }

\* The instants a difference is taken against.
OtherInstants ==
    { [nanos |-> n] : n \in {BigZero, BigOne, BigOfInt(-1999999999),
                             BigAdd(TwoPow53, BigOne)} }

SettingsInputs ==
    { DifferenceSettings(None, None, None, None),
      DifferenceSettings(None, Some("Microsecond"), None, None),
      DifferenceSettings(None, Some("Second"), Some("Ceil"), None),
      DifferenceSettings(Some("Auto"), Some("Millisecond"), Some("Floor"), Some(5)),
      DifferenceSettings(None, None, Some("Trunc"), Some(5)),
      DifferenceSettings(Some("Hour"), None, None, None),
      DifferenceSettings(Some("Microsecond"), Some("Second"), None, None) }

RoundInputs ==
    { <<None, "Nanosecond">>, <<Some(1), "Second">>, <<Some(2), "Nanosecond">>,
      <<Some(5), "Microsecond">>,
      <<Some(24), "Hour">>, <<Some(7), "Hour">>,
      <<Some(0), "Second">>, <<Some(1), "Day">> }

ModeInputs == {None} \cup {Some(m) : m \in TemporalRoundingMode}

IsInstant(v) == "nanos" \in DOMAIN v

IsTime(v) == "iso" \in DOMAIN v

TimeSeeds ==
    { new_unchecked(IsoTime(0, 0, 0, 0, 0, 0)),
      new_unchecked(IsoTime(23, 59, 59, 999, 999, 999)),
      new_unchecked(IsoTime(15, 23, 30, 123, 456, 789)),
      new_unchecked(IsoTime(3, 34, 56, 987, 654, 321)) }

\* The six i32 arguments of the constructors: in range, at the upper limits,
\* one past them, and below zero.
TimeFieldInputs ==
    { <<0, 0, 0, 0, 0, 0>>, <<23, 59, 59, 999, 999, 999>>,
      <<24, 60, 60, 1000, 1000, 1000>>, <<-1, 0, 0, 0, 0, 0>>,
      <<12, 30, 61, 500, 0, -5>> }

OverflowInputs == {"Constrain", "Reject"}

PartialInputs ==
    { PartialTime_default,
      PartialTime(Some(5), None, None, None, None, None),
      PartialTime(None, Some(59), Some(0), None, None, None),
      PartialTime(Some(25), None, None, None, None, None),
      PartialTime(None, None, Some(-3), Some(1000), None, Some(1)) }

OtherTimes ==
    { new_unchecked(IsoTime(0, 0, 0, 0, 0, 0)),
      new_unchecked(IsoTime(13, 30, 30, 123, 456, 789)),
      new_unchecked(IsoTime(23, 59, 59, 999, 999, 999)),
      new_unchecked(IsoTime(3, 34, 56, 987, 654, 322)) }

\* <<rounding increment, smallest unit>> of PlainTime::round
TimeRoundInputs ==
    { <<None, "Nanosecond">>, <<Some(2), "Nanosecond">>, <<Some(25), "Nanosecond">>,
      <<Some(500), "Microsecond">>, <<Some(4), "Millisecond">>, <<Some(5), "Millisecond">>,
      <<Some(30), "Second">>, <<Some(30), "Minute">>, <<Some(4), "Hour">>,
      <<Some(24), "Hour">>, <<Some(25), "Hour">>, <<Some(7), "Minute">>,
      <<Some(1), "Day">> }

Idle == [op |-> "idle"]

\* A call is made when the caller holds no unread result and has calls left.
CanCall == steps < MaxSteps /\ last = Idle

Call(op, arg, out) ==
    /\ steps' = steps + 1
    /\ last' = [op |-> op, recv |-> self, arg |-> arg, out |-> out]
    /\ UNCHANGED self

\* The caller takes the result: an Ok value of the receiver's type becomes
\* the value it holds.
Continue ==
    /\ last # Idle
    /\ self' = IF IsOk(last.out) /\ DOMAIN last.out.val = DOMAIN self
               THEN last.out.val ELSE self
    /\ last' = Idle
    /\ UNCHANGED steps

InstantNew ==
    /\ CanCall /\ IsInstant(self)
    /\ \E n \in EpochInputs : Call("Instant::new", n, Instant_new(n))

InstantAdd ==
    /\ CanCall /\ IsInstant(self)
    /\ \E d \in DurationInputs : Call("Instant::add", d, Instant_add(self, d))

InstantSubtract ==
    /\ CanCall /\ IsInstant(self)
    /\ \E d \in DurationInputs : Call("Instant::subtract", d, Instant_subtract(self, d))

InstantSince ==
    /\ CanCall /\ IsInstant(self)
    /\ \E other \in OtherInstants, s \in SettingsInputs :
          Call("Instant::since", <<other, s>>, Instant_since(self, other, s))

InstantUntil ==
    /\ CanCall /\ IsInstant(self)
    /\ \E other \in OtherInstants, s \in SettingsInputs :
          Call("Instant::until", <<other, s>>, Instant_until(self, other, s))

InstantRound ==
    /\ CanCall /\ IsInstant(self)
    /\ \E iu \in RoundInputs, mode \in ModeInputs :
          \E out \in Instant_round(self, iu[1], iu[2], mode) :
              Call("Instant::round", <<iu[1], iu[2], mode>>, out)

InstantEpochSeconds ==
    /\ CanCall /\ IsInstant(self)
    /\ Call("Instant::epoch_seconds", <<>>, Ok(epoch_seconds(self)))

InstantEpochMilliseconds ==
    /\ CanCall /\ IsInstant(self)
    /\ Call("Instant::epoch_milliseconds", <<>>, Ok(epoch_milliseconds(self)))

InstantEpochMicroseconds ==
    /\ CanCall /\ IsInstant(self)
    /\ Call("Instant::epoch_microseconds", <<>>, Ok(epoch_microseconds(self)))

InstantEpochNanoseconds ==
    /\ CanCall /\ IsInstant(self)
    /\ Call("Instant::epoch_nanoseconds", <<>>, Ok(epoch_nanoseconds(self)))

TimeNew ==
    /\ CanCall /\ IsTime(self)
    /\ \E f \in TimeFieldInputs :
          Call("PlainTime::new", f, PlainTime_new(f[1], f[2], f[3], f[4], f[5], f[6]))

TimeTryNew ==
    /\ CanCall /\ IsTime(self)
    /\ \E f \in TimeFieldInputs :
          Call("PlainTime::try_new", f, PlainTime_try_new(f[1], f[2], f[3], f[4], f[5], f[6]))

TimeNewWithOverflow ==
    /\ CanCall /\ IsTime(self)
    /\ \E f \in TimeFieldInputs, overflow \in OverflowInputs :
          Call("PlainTime::new_with_overflow", <<f, overflow>>,
               PlainTime_new_with_overflow(f[1], f[2], f[3], f[4], f[5], f[6], overflow))

TimeWith ==
    /\ CanCall /\ IsTime(self)
    /\ \E partial \in PartialInputs, overflow \in {None} \cup {Some(o) : o \in OverflowInputs} :
          Call("PlainTime::with", <<partial, overflow>>, PlainTime_with(self, partial, overflow))

TimeAdd ==
    /\ CanCall /\ IsTime(self)
    /\ \E d \in DurationInputs : Call("PlainTime::add", d, PlainTime_add(self, d))

TimeSubtract ==
    /\ CanCall /\ IsTime(self)
    /\ \E d \in DurationInputs : Call("PlainTime::subtract", d, PlainTime_subtract(self, d))

TimeUntil ==
    /\ CanCall /\ IsTime(self)
    /\ \E other \in OtherTimes, s \in SettingsInputs :
          Call("PlainTime::until", <<other, s>>, PlainTime_until(self, other, s))

TimeSince ==
    /\ CanCall /\ IsTime(self)
    /\ \E other \in OtherTimes, s \in SettingsInputs :
          Call("PlainTime::since", <<other, s>>, PlainTime_since(self, other, s))

TimeRound ==
    /\ CanCall /\ IsTime(self)
    /\ \E iu \in TimeRoundInputs, mode \in ModeInputs :
          Call("PlainTime::round", <<iu[2], iu[1], mode>>,
               PlainTime_round(self, iu[2], iu[1], mode))

Init ==
    /\ self \in InstantSeeds \cup TimeSeeds
    /\ last = Idle
    /\ steps = 0

Next ==
    \/ InstantNew
    \/ InstantAdd
    \/ InstantSubtract
    \/ InstantSince
    \/ InstantUntil
    \/ InstantRound
    \/ InstantEpochSeconds
    \/ InstantEpochMilliseconds
    \/ InstantEpochMicroseconds
    \/ InstantEpochNanoseconds
    \/ TimeNew
    \/ TimeTryNew
    \/ TimeNewWithOverflow
    \/ TimeWith
    \/ TimeAdd
    \/ TimeSubtract
    \/ TimeUntil
    \/ TimeSince
    \/ TimeRound
    \/ Continue

Spec == Init /\ [][Next]_vars

(***************************************************************************)
(* Exact arithmetic the claims are stated in.                              *)
(***************************************************************************)
\* floor(a / b) for b > 0
FloorOf(neg, d) == IF neg /\ d.r # <<>> THEN Big(TRUE, MagAdd(d.q, <<1>>)) ELSE Big(neg, d.q)

FloorDiv(a, b) == FloorOf(a.neg, MagDivMod(a.mag, b.mag))

\* The exact number of nanoseconds in a time duration.
TotalNanoseconds(t) ==
    BigAdd(BigAdd(BigAdd(BigAdd(BigAdd(t.nanoseconds,
        BigMul(t.microseconds, BigOfInt(1000))),
        BigMul(t.milliseconds, BigOfInt(1000000))),
        BigMul(t.seconds, BigOfInt(1000000000))),
        BigMul(t.minutes, BigMul(BigOfInt(60), BigOfInt(1000000000)))),
        BigMul(t.hours, BigMul(BigOfInt(3600), BigOfInt(1000000000))))

InRange(n) == BigLe(NS_MIN_INSTANT, n) /\ BigLe(n, NS_MAX_INSTANT)

\* The nanoseconds since midnight of a time of day.
NsOfDay(iso) ==
    TotalNanoseconds(TD(iso.hour, iso.minute, iso.second,
                        iso.millisecond, iso.microsecond, iso.nanosecond))

\* n modulo the nanoseconds in one day, in 0 .. NS_PER_DAY - 1
ModDay(n) == BigSub(n, BigMul(FloorDiv(n, NS_PER_DAY), NS_PER_DAY))

\* floor(n / NS_PER_DAY) as an integer
DaysOf(n) == BigToInt(FloorDiv(n, NS_PER_DAY))

(***************************************************************************)
(* Claims                                                                  *)
(***************************************************************************)
\* C1: Instant::new(n) returns an Instant holding n when
\* NS_MIN_INSTANT <= n <= NS_MAX_INSTANT, both bounds included, and a
\* RangeError otherwise, one past either bound included.
C1_NewRange ==
    last.op = "Instant::new" =>
        /\ IsOk(last.out) <=> InRange(last.arg)
        /\ IsOk(last.out) => last.out.val.nanos = last.arg
        /\ ~IsOk(last.out) => last.out = RangeError
        /\ last.arg \in {NS_MAX_INSTANT, NS_MIN_INSTANT} => IsOk(last.out)
        /\ last.arg \in {BigAdd(NS_MAX_INSTANT, BigOne), BigSub(NS_MIN_INSTANT, BigOne)}
              => last.out = RangeError

C1_Witness ==
    /\ last.op = "Instant::new"
    /\ last.arg = BigAdd(NS_MAX_INSTANT, BigOne)
    /\ last.out = RangeError

\* C2: Instant::add of a time-only duration returns the Instant at exactly
\* the receiver's epoch nanoseconds plus the duration's total nanoseconds,
\* and a RangeError exactly when that exact sum is outside the bounds.
C2_AddExact ==
    (last.op = "Instant::add" /\ is_time_duration(last.arg)) =>
        LET sum == BigAdd(last.recv.nanos, TotalNanoseconds(last.arg.time))
        IN  IF InRange(sum) THEN last.out = Ok([nanos |-> sum])
            ELSE last.out = RangeError

\* C3: when i.add(d) is in range, i.add(d).subtract(d) is i again.
C3_AddSubtractRoundTrip ==
    (last.op = "Instant::add" /\ IsOk(last.out)) =>
        Instant_subtract(last.out.val, last.arg) = Ok(last.recv)

\* C6: epoch_seconds, epoch_milliseconds and epoch_microseconds are the
\* epoch nanoseconds divided by 10^9, 10^6 and 10^3, rounded toward
\* negative infinity.
C6_EpochFloor ==
    /\ last.op = "Instant::epoch_seconds" =>
          last.out.val = FloorDiv(last.recv.nanos, BigOfInt(1000000000))
    /\ last.op = "Instant::epoch_milliseconds" =>
          last.out.val = FloorDiv(last.recv.nanos, BigOfInt(1000000))
    /\ last.op = "Instant::epoch_microseconds" =>
          last.out.val = FloorDiv(last.recv.nanos, BigOfInt(1000))

\* C4: under default settings a.until(b) totals exactly b - a nanoseconds
\* and a.since(b) exactly a - b, whichever instant is the earlier.
C4_DiffTotal ==
    /\ (last.op = "Instant::until" /\ last.arg[2] = DifferenceSettings(None, None, None, None))
          => /\ IsOk(last.out)
             /\ TotalNanoseconds(last.out.val) = BigSub(last.arg[1].nanos, last.recv.nanos)
    /\ (last.op = "Instant::since" /\ last.arg[2] = DifferenceSettings(None, None, None, None))
          => /\ IsOk(last.out)
             /\ TotalNanoseconds(last.out.val) = BigSub(last.recv.nanos, last.arg[1].nanos)

\* C5: a.since(b, s) is a.until(b, s) with every component negated, for
\* Instant and for PlainTime, whenever the settings are accepted.
C5_SinceNegatesUntil ==
    /\ (last.op = "Instant::since" /\ IsOk(last.out))
          => /\ IsOk(Instant_until(last.recv, last.arg[1], last.arg[2]))
             /\ last.out.val = negated(Instant_until(last.recv, last.arg[1], last.arg[2]).val)
    /\ (last.op = "PlainTime::since" /\ IsOk(last.out))
          => /\ IsOk(PlainTime_until(last.recv, last.arg[1], last.arg[2]))
             /\ last.out.val.time =
                    negated(PlainTime_until(last.recv, last.arg[1], last.arg[2]).val.time)

\* The number of `unit`s in one day, Hour down to Nanosecond.
UnitsPerDay(unit) ==
    CASE unit = "Hour"        -> BigOfInt(24)
      [] unit = "Minute"      -> BigOfInt(1440)
      [] unit = "Second"      -> BigOfInt(86400)
      [] unit = "Millisecond" -> BigOfInt(86400000)
      [] unit = "Microsecond" -> BigMul(BigOfInt(86400000), BigOfInt(1000))
      [] unit = "Nanosecond"  -> BigMul(BigOfInt(86400000), BigOfInt(1000000))

\* Instant::round accepts the unit and the increment.
RoundAccepts(increment, unit) ==
    /\ UnitOrd(unit) \in 1..6
    /\ unwrap_or(increment, 1) >= 1
    /\ BigRemTrunc(UnitsPerDay(unit), BigOfInt(unwrap_or(increment, 1))) = BigZero

\* C7: for every accepted unit and increment and every mode, Instant::round
\* returns the Instant at the multiple of increment * nanoseconds-per-unit
\* that the mode selects for the exact epoch nanoseconds, negative ones and
\* ones above 2^64 included, or a RangeError when that multiple is out of
\* bounds.
C7_RoundExact ==
    (last.op = "Instant::round" /\ RoundAccepts(last.arg[1], last.arg[2])) =>
        IF InRange(IncrementRounder_round(last.recv.nanos,
                       BigMul(BigOfInt(unwrap_or(last.arg[1], 1)), as_nanoseconds(last.arg[2])),
                       unwrap_or(last.arg[3], "HalfExpand")))
        THEN last.out = Ok([nanos |-> IncrementRounder_round(last.recv.nanos,
                       BigMul(BigOfInt(unwrap_or(last.arg[1], 1)), as_nanoseconds(last.arg[2])),
                       unwrap_or(last.arg[3], "HalfExpand"))])
        ELSE last.out = RangeError

\* C8: Instant::round returns a RangeError, and no Instant, when the unit is
\* not one of Hour..Nanosecond and when the increment does not evenly divide
\* the number of such units in one day.
C8_RoundRejects ==
    (last.op = "Instant::round" /\ ~RoundAccepts(last.arg[1], last.arg[2])) =>
        last.out = RangeError

C8_Witness ==
    /\ last.op = "Instant::round"
    /\ last.arg[1] = Some(7) /\ last.arg[2] = "Hour"
    /\ last.out = RangeError

\* C9: add and subtract, on Instant and on PlainTime, return a RangeError
\* and no value whenever the duration has a non-zero date part, whatever
\* the receiver and the time part are.
C9_DatePartRejected ==
    (/\ last.op \in {"Instant::add", "Instant::subtract", "PlainTime::add", "PlainTime::subtract"}
     /\ last.arg.date # ZeroDate)
        => last.out = RangeError

C9_Witness ==
    /\ last.op = "Instant::add"
    /\ last.arg.date.days = 1
    /\ last.out = RangeError

\* C10: every PlainTime that a sequence of new, try_new, new_with_overflow,
\* with, add, subtract and round returns has hour in 0..23, minute and second
\* in 0..59, and millisecond, microsecond and nanosecond in 0..999.
C10_FieldsInRange ==
    /\ IsTime(self) => IsoTime_is_valid(self.iso)
    /\ (/\ last.op \in {"PlainTime::new", "PlainTime::try_new", "PlainTime::new_with_overflow",
                        "PlainTime::with", "PlainTime::add", "PlainTime::subtract",
                        "PlainTime::round"}
        /\ IsOk(last.out))
          => IsoTime_is_valid(last.out.val.iso)

\* An addition to a time that an earlier operation returned carries past
\* midnight.
C10_Witness ==
    /\ last.op = "PlainTime::add"
    /\ last.recv \notin TimeSeeds
    /\ IsOk(last.out)
    /\ last.out.val.iso.hour < last.recv.iso.hour

\* C11: for every PlainTime t and time-only duration d, t.add(d) is the time
\* of day whose nanoseconds since midnight are those of t plus the total
\* nanoseconds of d, modulo the nanoseconds in one day.
C11_AddWraps ==
    (last.op = "PlainTime::add" /\ is_time_duration(last.arg)) =>
        /\ IsOk(last.out)
        /\ NsOfDay(last.out.val.iso) =
              ModDay(BigAdd(NsOfDay(last.recv.iso), TotalNanoseconds(last.arg.time)))

C13_AddSubtractRoundTrip ==
    (last.op = "PlainTime::add" /\ IsOk(last.out)) =>
        PlainTime_subtract(last.out.val, last.arg) = Ok(last.recv)

\* The multiple of m nearest to n >= 0, a tie going to the larger one.
NearestMultiple(n, m) ==
    BigMul(FloorDiv(BigAdd(BigMul(BigOfInt(2), n), m), BigMul(BigOfInt(2), m)), m)

\* Every field finer than the unit is zero.
FinerFieldsZero(iso, unit) ==
    /\ UnitOrd(unit) > 1 => iso.nanosecond = 0
    /\ UnitOrd(unit) > 2 => iso.microsecond = 0
    /\ UnitOrd(unit) > 3 => iso.millisecond = 0
    /\ UnitOrd(unit) > 4 => iso.second = 0
    /\ UnitOrd(unit) > 5 => iso.minute = 0

\* C14: with HalfExpand, given or by default, t.round(u, k) on an accepted
\* unit and increment returns the time whose nanoseconds since midnight are
\* the multiple of k * nanoseconds-per-u nearest to those of t, a tie going
\* to the larger multiple, modulo one day; the fields finer than u are zero.
C14_RoundHalfExpand ==
    (/\ last.op = "PlainTime::round"
     /\ last.arg[3] \in {None, Some("HalfExpand")}
     /\ IsOk(last.out))
        => /\ NsOfDay(last.out.val.iso) =
                 ModDay(NearestMultiple(NsOfDay(last.recv.iso),
                            BigMul(BigOfInt(unwrap_or(last.arg[2], 1)),
                                   as_nanoseconds(last.arg[1]))))
           /\ FinerFieldsZero(last.out.val.iso, last.arg[1])
           /\ (/\ last.recv = new_unchecked(IsoTime(3, 34, 56, 987, 654, 321))
               /\ last.arg[1] = "Millisecond" /\ last.arg[2] = Some(5))
                  => last.out.val.iso = IsoTime(3, 34, 56, 990, 0, 0)

\* 03:34:56.987654321 rounded to 25 ns with the default mode
C14_Witness ==
    /\ last.op = "PlainTime::round"
    /\ last.recv = new_unchecked(IsoTime(3, 34, 56, 987, 654, 321))
    /\ last.arg = <<"Nanosecond", Some(25), None>>
    /\ last.out = Ok(new_unchecked(IsoTime(3, 34, 56, 987, 654, 325)))

\* The per-unit maximum increment the claim names, 0 for a unit with none.
TimeMaxOf(unit) ==
    CASE unit = "Hour" -> 24
      [] unit \in {"Minute", "Second"} -> 60
      [] unit \in {"Millisecond", "Microsecond", "Nanosecond"} -> 1000
      [] OTHER -> 0

C16_RoundIdempotent ==
    /\ (last.op = "PlainTime::round" /\ IsOk(last.out)) =>
          PlainTime_round(last.out.val, last.arg[1], last.arg[2], last.arg[3]) = last.out
    /\ (last.op = "Instant::round" /\ IsOk(last.out)) =>
          Instant_round(last.out.val, last.arg[1], last.arg[2], last.arg[3]) = {last.out}

DefaultSettings == DifferenceSettings(None, None, None, None)

\* A component is zero or has the sign of the total and is at most `most`
\* in magnitude.
ComponentWithin(c, total, most) ==
    /\ SignOf(c) \in {0, SignOf(total)}
    /\ MagCmp(c.mag, MagOfNat(most)) <= 0

\* The duration has no date part, totals `total` nanoseconds and is
\* balanced with hour as the largest unit, every component with the sign
\* of the total.
ExactBalanced(d, total) ==
    /\ d.date = ZeroDate
    /\ TotalNanoseconds(d.time) = total
    /\ ComponentWithin(d.time.hours, total, 23)
    /\ ComponentWithin(d.time.minutes, total, 59)
    /\ ComponentWithin(d.time.seconds, total, 59)
    /\ ComponentWithin(d.time.milliseconds, total, 999)
    /\ ComponentWithin(d.time.microseconds, total, 999)
    /\ ComponentWithin(d.time.nanoseconds, total, 999)

\* C17: with default settings t.since(u) is the exact difference t - u and
\* t.until(u) the exact difference u - t, balanced with hour as the largest
\* unit and every component carrying the sign of the difference; swapping
\* receiver and argument negates every component.
C17_TimeDiffExact ==
    /\ (last.op = "PlainTime::since" /\ last.arg[2] = DefaultSettings) =>
          /\ IsOk(last.out)
          /\ ExactBalanced(last.out.val,
                           BigSub(NsOfDay(last.recv.iso), NsOfDay(last.arg[1].iso)))
          /\ PlainTime_since(last.arg[1], last.recv, DefaultSettings) =
                Ok(Duration(ZeroDate, negated(last.out.val.time)))
    /\ (last.op = "PlainTime::until" /\ last.arg[2] = DefaultSettings) =>
          /\ IsOk(last.out)
          /\ ExactBalanced(last.out.val,
                           BigSub(NsOfDay(last.arg[1].iso), NsOfDay(last.recv.iso)))
          /\ PlainTime_until(last.arg[1], last.recv, DefaultSettings) =
                Ok(Duration(ZeroDate, negated(last.out.val.time)))

\* 15:23:30.123456789 since 13:30:30.123456789 is 1 hour 53 minutes.
C17_Witness ==
    /\ last.op = "PlainTime::since"
    /\ last.recv = new_unchecked(IsoTime(15, 23, 30, 123, 456, 789))
    /\ last.arg = <<new_unchecked(IsoTime(13, 30, 30, 123, 456, 789)), DefaultSettings>>
    /\ last.out = Ok(Duration(ZeroDate, TD(1, 53, 0, 0, 0, 0)))

TimeFields == {"hour", "minute", "second", "millisecond", "microsecond", "nanosecond"}

\* The largest value of a field of a time of day.
FieldMax(f) == IF f = "hour" THEN 23 ELSE IF f \in {"minute", "second"} THEN 59 ELSE 999

\* The value with(partial) asks for in field f: the partial's when it has
\* one, the receiver's otherwise.
Overlaid(recv, partial, f) == IF partial[f] = None THEN recv.iso[f] ELSE partial[f][1]

\* C18: PlainTime::with returns a TypeError when the partial has no field
\* set; otherwise every field comes from the partial when present there and
\* from the receiver when absent, the whole validated under the overflow
\* policy, Constrain when none is given: Constrain clamps each field into
\* its range and Reject refuses a field out of range with a RangeError.
C18_With ==
    last.op = "PlainTime::with" =>
        IF \A f \in TimeFields : last.arg[1][f] = None
        THEN last.out = TypeError
        ELSE IF unwrap_or(last.arg[2], "Constrain") = "Constrain"
        THEN /\ IsOk(last.out)
             /\ \A f \in TimeFields :
                   last.out.val.iso[f] =
                       Clamp(Overlaid(last.recv, last.arg[1], f), 0, FieldMax(f))
        ELSE IF \A f \in TimeFields :
                   Overlaid(last.recv, last.arg[1], f) \in 0..FieldMax(f)
        THEN /\ IsOk(last.out)
             /\ \A f \in TimeFields :
                   last.out.val.iso[f] = Overlaid(last.recv, last.arg[1], f)
        ELSE last.out = RangeError

\* Minute and second are taken from the partial, the rest from the receiver.
C18_Witness ==
    /\ last.op = "PlainTime::with"
    /\ last.recv = new_unchecked(IsoTime(15, 23, 30, 123, 456, 789))
    /\ last.arg[1] = PartialTime(None, Some(59), Some(0), None, None, None)
    /\ last.out = Ok(new_unchecked(IsoTime(15, 59, 0, 123, 456, 789)))

\* C19: Instant::since and Instant::until round the difference whenever the
\* resolved smallest unit is not Nanosecond or the resolved increment is
\* not 1: the total nanoseconds of the returned duration are a multiple of
\* the increment times the nanoseconds of the smallest unit, with smallest
\* unit Nanosecond and increment k > 1 a multiple of k.
C19_InstantDiffRounds ==
    (/\ last.op \in {"Instant::since", "Instant::until"}
     /\ IsOk(last.out)
     /\ \/ unwrap_or(last.arg[2].smallest_unit, "Nanosecond") # "Nanosecond"
        \/ unwrap_or(last.arg[2].increment, 1) # 1)
        => BigRemTrunc(TotalNanoseconds(last.out.val),
                       BigMul(BigOfInt(unwrap_or(last.arg[2].increment, 1)),
                              as_nanoseconds(unwrap_or(last.arg[2].smallest_unit,
                                                       "Nanosecond")))) = BigZero

\* C20: for every pair of valid Instants and valid settings whose smallest
\* unit is Microsecond, Millisecond or Second, Instant::since and
\* Instant::until return a duration and no error.
C20_InstantDiffNoError ==
    /\ (/\ last.op = "Instant::since"
        /\ last.arg[2].smallest_unit \in {Some("Microsecond"), Some("Millisecond"),
                                          Some("Second")}
        /\ IsOk(from_diff_settings(last.arg[2], "Since", "Second", "Nanosecond")))
          => IsOk(last.out)
    /\ (/\ last.op = "Instant::until"
        /\ last.arg[2].smallest_unit \in {Some("Microsecond"), Some("Millisecond"),
                                          Some("Second")}
        /\ IsOk(from_diff_settings(last.arg[2], "Until", "Second", "Nanosecond")))
          => IsOk(last.out)
====
